---------------------------- MODULE Spec2Model ----------------------------
(***************************************************************************)
(* Model of the package-push pipeline (push-pkg-by-robot.py), its sqlite   *)
(* directory store (robotdb.py) and the three UIM web-service calls it     *)
(* uses (cauimws.py: get_hubs, get_robots, push_pkg).                      *)
(*                                                                         *)
(* Strings are sequences of one-character strings, so that lower(),        *)
(* strip() and the "in" substring test are computed as Python computes     *)
(* them.  The scripts are Python 2 scripts (byte strings read from a file  *)
(* opened 'rb' are formatted into queries and report lines as they are).   *)
(***************************************************************************)
EXTENDS Integers, Sequences, FiniteSets, TLC

\* ------------------------------------------------------------------ bounds
MaxTargets == 3     \* lines of data\targets.txt
MaxRetries == 1     \* largest value of the "retries" setting
MaxAlarms == 2      \* alarms returned by get_alarms
MaxLines == 3       \* lines of the systems list file

\* ------------------------------------------------------------- characters
UPPERCASE == <<"A","B","C","D","E","F","G","H","I","J","K","L","M",
               "N","O","P","Q","R","S","T","U","V","W","X","Y","Z">>
LOWERCASE == <<"a","b","c","d","e","f","g","h","i","j","k","l","m",
               "n","o","p","q","r","s","t","u","v","w","x","y","z">>
WHITESPACE == {" ", "\t", "\n", "\r", "\f"}

\* the lower-case letter of each upper-case letter
ToLower ==
    [c \in { UPPERCASE[i] : i \in 1..Len(UPPERCASE) } |->
        LOWERCASE[CHOOSE i \in 1..Len(UPPERCASE) : UPPERCASE[i] = c]]

\* one character of str.lower() / SQL lower(): ASCII upper case to lower case
LowerChar(c) == IF c \in DOMAIN ToLower THEN ToLower[c] ELSE c

\* str.lower()
Lower(s) == [i \in 1..Len(s) |-> LowerChar(s[i])]

\* str.strip(): drops leading and trailing whitespace
RECURSIVE LStrip(_)
LStrip(s) ==
    IF s # <<>> /\ Head(s) \in WHITESPACE THEN LStrip(Tail(s)) ELSE s

RECURSIVE RStrip(_)
RStrip(s) ==
    IF s # <<>> /\ s[Len(s)] \in WHITESPACE
    THEN RStrip(SubSeq(s, 1, Len(s) - 1))
    ELSE s

Strip(s) == RStrip(LStrip(s))

\* Python's  sub in s  on two strings: sub occurs in s as a substring
StrIn(sub, s) ==
    \E i \in 0..(Len(s) - Len(sub)) : SubSeq(s, i + 1, i + Len(sub)) = sub

\* ------------------------------------------------------------------ names
HUB   == <<"H","U","B">>
HUB_A == <<"H","U","B","-","A">>
HUB_B == <<"H","U","B","-","B">>
srv1  == <<"s","r","v","1">>
Srv1  == <<"S","r","v","1">>
srv2  == <<"s","r","v","2">>
srv3  == <<"s","r","v","3">>
SRV3  == <<"S","R","V","3">>
srv4  == <<"s","r","v","4">>

HubNames == {HUB, HUB_A, HUB_B}

\* What the UIM domain holds: the hub list and each hub's robot list.
\* HUB-A owns srv1 and srv2, HUB-B owns srv3
TwoHubs ==
    [hubs |-> <<HUB_A, HUB_B>>,
     robots |-> [n \in HubNames |->
          IF n = HUB_A THEN <<srv1, srv2>>
          ELSE IF n = HUB_B THEN <<srv3>> ELSE <<>>]]

\* a hub whose name is the beginning of another hub's name
PrefixHub ==
    [hubs |-> <<HUB, HUB_B>>,
     robots |-> [n \in HubNames |->
          IF n = HUB THEN <<srv1>>
          ELSE IF n = HUB_B THEN <<srv3>> ELSE <<>>]]

\* one robot reported by two hubs, once exactly and once in another case,
\* and a third hub after them
SharedRobots ==
    [hubs |-> <<HUB_A, HUB_B, HUB>>,
     robots |-> [n \in HubNames |->
          IF n = HUB_A THEN <<Srv1, srv3>>
          ELSE IF n = HUB_B THEN <<srv3, srv1>>
          ELSE IF n = HUB THEN <<srv2>> ELSE <<>>]]

\* a robot registered under an upper-case name
UpperCaseRobot ==
    [hubs |-> <<HUB_B, HUB_A>>,
     robots |-> [n \in HubNames |->
          IF n = HUB_B THEN <<SRV3>>
          ELSE IF n = HUB_A THEN <<srv4>> ELSE <<>>]]

Topologies == {TwoHubs, PrefixHub, SharedRobots, UpperCaseRobot}

\* values of the "exclude" setting: one string, hub names separated by ","
ExcludeSettings == { <<>>, HUB_B, HUB_A \o <<",">> \o HUB_B }

\* lines of data\targets.txt, as the file iterator yields them
TargetLines ==
    { srv1 \o <<"\n">>,
      srv4 \o <<" ", "\r", "\n">>,
      <<"\t">> \o SRV3 \o <<"\n">> }

\* The sqlite file: whether connect() can open it, whether statements that
\* write to it succeed, whether it holds table uim_robots_tbl, and the rows.
\* A store file left by an earlier run, or no store file yet:
StaleStores ==
    { [openable |-> TRUE, writable |-> TRUE, exists |-> FALSE, rows |-> <<>>],
      [openable |-> TRUE, writable |-> TRUE, exists |-> TRUE,
       rows |-> <<[robot |-> srv4, hub |-> HUB_A]>>] }

\* a store file that cannot be opened, or can be opened but not written
FaultyStores ==
    { [openable |-> FALSE, writable |-> FALSE, exists |-> FALSE, rows |-> <<>>],
      [openable |-> TRUE, writable |-> FALSE, exists |-> FALSE, rows |-> <<>>],
      [openable |-> TRUE, writable |-> FALSE, exists |-> TRUE,
       rows |-> <<[robot |-> srv4, hub |-> HUB_A]>>] }

\* ------------------------------------------------------------------ state
VARIABLES
    pc,            \* position in main()
    retries,       \* int(config.get('data', 'retries'))
    excluded,      \* config.get('uimws', 'exclude')
    uim,           \* the UIM domain behind the web service
    db,            \* the sqlite file: table uim_robots_tbl, rows in rowid order
    hubs,          \* result of get_hubs
    h,             \* hubs already iterated by  for hub in hubs
    targets,       \* lines of targets.txt read so far
    robot,         \* target.strip().lower()
    found,         \* result of has_robot: <<hub, robot>>, or <<>> for None
    pushed,        \* result of the latest push_pkg
    attempts,      \* retries made for the current target
    times_pushed,  \* count of robots pushed to
    f_norobot,     \* lines of reports\norobot.txt
    f_pushed,      \* lines of reports\pushed.txt
    enumerated,    \* get_robots calls made: hub, whether answered 200, and
                   \* what put_robots returned for the list
    lookups,       \* has_robot calls made: target index, hostname, row
    calls,         \* push_pkg calls made: target index, hub, robot, result
    alarms,        \* ackrobotinactive: result of get_alarms
    alarm,         \* ackrobotinactive: alarms already iterated
    hub_robot,     \* ackrobotinactive: result of find_hub_robot
    invoked,       \* ackrobotinactive: is_reachable, remove_robot and
                   \* acknowledge_alarm calls made, with the alarm's index
    systems,       \* maintenancemode: the lines of the systems list file
    line_no,       \* maintenancemode: lines returned by readline() so far
    comp_sys_name, \* maintenancemode: systems.readline().strip()
    cs_ids,        \* maintenancemode: the ids collected
    asked,         \* maintenancemode: get_comp_sys_ids calls made: name, ids
    sleeps         \* sleep(delay) calls made: target index, and the number
                   \* of push_pkg calls made before it

vars == <<pc, retries, excluded, uim, db, hubs, h, targets, robot, found,
          pushed, attempts, times_pushed, f_norobot, f_pushed,
          enumerated, lookups, calls, alarms, alarm, hub_robot, invoked,
          systems, line_no, comp_sys_name, cs_ids, asked, sleeps>>

ackrun == <<alarms, alarm, hub_robot, invoked>>
mmrun  == <<systems, line_no, comp_sys_name, cs_ids, asked>>

config == <<retries, excluded, uim>>
build  == <<db, hubs, h, enumerated>>
report == <<times_pushed, f_norobot, f_pushed>>

None == <<>>

\* ------------------------------------------------------------ robotdb.py
\* variant of create_db: the table is created if missing but never dropped
create_db_KeepsRows(d) ==
    IF d.writable THEN [d EXCEPT !.exists = TRUE] ELSE d

\* create_db on a file that opens: DROP TABLE IF EXISTS, then CREATE TABLE;
\* when the statements raise Error nothing is committed
create_db(d) ==
    IF d.writable THEN [d EXCEPT !.exists = TRUE, !.rows = <<>>] ELSE d

\* variant of the INSERT: INSERT OR REPLACE, the later row takes the place
\* of the earlier one
Insert_Replaces(d, r, hub) ==
    IF d.writable /\ d.exists
    THEN [d EXCEPT !.rows =
            Append(SelectSeq(@, LAMBDA row : row.robot # r),
                   [robot |-> r, hub |-> hub])]
    ELSE d

\* one INSERT of put_robots: robot is the PRIMARY KEY (compared exactly);
\* an insert that raises Error leaves the table as it was
Insert(d, r, hub) ==
    IF d.writable /\ d.exists /\ \A i \in 1..Len(d.rows) : d.rows[i].robot # r
    THEN [d EXCEPT !.rows = Append(@, [robot |-> r, hub |-> hub])]
    ELSE d

\* variant of put_robots: the first insert that fails ends the loop
RECURSIVE put_robots_StopsAtFailure(_, _, _)
put_robots_StopsAtFailure(d, hub, robots) ==
    IF robots = <<>> \/ Insert(d, Head(robots), hub) = d THEN d
    ELSE put_robots_StopsAtFailure(Insert(d, Head(robots), hub), hub,
                                   Tail(robots))

\* put_robots: one INSERT per robot, each committed or skipped on its own
RECURSIVE put_robots(_, _, _)
put_robots(d, hub, robots) ==
    IF robots = <<>> THEN d
    ELSE put_robots(Insert(d, Head(robots), hub), hub, Tail(robots))

\* the value put_robots returns: True unless an insert raised Error
RECURSIVE put_result(_, _, _)
put_result(d, hub, robots) ==
    IF robots = <<>> THEN TRUE
    ELSE /\ Insert(d, Head(robots), hub) # d
         /\ put_result(Insert(d, Head(robots), hub), hub, Tail(robots))

\* variant of the WHERE clause: the stored name is compared as it is
Matching_CaseSensitive(d, hostname) ==
    IF d.exists
    THEN { i \in 1..Len(d.rows) : d.rows[i].robot = Lower(hostname) }
    ELSE {}

\* rows selected by  WHERE lower(robot) = '<hostname.lower()>'
Matching(d, hostname) ==
    IF d.exists
    THEN { i \in 1..Len(d.rows) : Lower(d.rows[i].robot) = Lower(hostname) }
    ELSE {}

\* has_robot: fetchone() of the SELECT, which has no ORDER BY: any one of the
\* matching rows as (hub, robot), or None
has_robot(d, hostname) ==
    IF Matching(d, hostname) = {} THEN {None}
    ELSE { <<d.rows[i].hub, d.rows[i].robot>> : i \in Matching(d, hostname) }

\* ------------------------------------------------------- push-pkg-by-robot
Init ==
    /\ pc = "create_db"
    /\ retries \in (-1)..MaxRetries
    /\ excluded \in ExcludeSettings
    /\ uim \in Topologies
    /\ db \in StaleStores
    /\ hubs = <<>>
    /\ h = 0
    /\ targets = <<>>
    /\ robot = <<>>
    /\ found = None
    /\ pushed = FALSE
    /\ attempts = 0
    /\ times_pushed = 0
    /\ f_norobot = <<>>
    /\ f_pushed = <<>>
    /\ enumerated = <<>>
    /\ lookups = <<>>
    /\ calls = <<>>
    /\ alarms = <<>>
    /\ alarm = 0
    /\ hub_robot = None
    /\ invoked = <<>>
    /\ systems = <<>>
    /\ line_no = 0
    /\ comp_sys_name = <<>>
    /\ cs_ids = <<>>
    /\ asked = <<>>
    /\ sleeps = <<>>

\* create_db(robotdb); its result is not looked at.  When connect() raises,
\* conn is not bound and  if conn:  ends main() with UnboundLocalError.
CreateDb ==
    /\ pc = "create_db"
    /\ IF db.openable
       THEN /\ db' = create_db(db)
            /\ pc' = "get_hubs"
       ELSE /\ db' = db
            /\ pc' = "aborted"
    /\ UNCHANGED <<ackrun, mmrun, sleeps, config, hubs, h, enumerated, targets, robot, found, pushed,
                   attempts, report, lookups, calls>>

\* hubs = get_hubs(uim_ws): the hub list, or {} when the call fails
GetHubs ==
    /\ pc = "get_hubs"
    /\ \E ok \in BOOLEAN : hubs' = IF ok THEN uim.hubs ELSE <<>>
    /\ h' = 0
    /\ pc' = "hubs"
    /\ UNCHANGED <<ackrun, mmrun, sleeps, config, db, enumerated, targets, robot, found, pushed,
                   attempts, report, lookups, calls>>

\* variant of the test: no hub is ever left out
NotExcluded_Never(name, excl) == TRUE

\* the test  hub['name'] not in excluded
NotExcluded(name, excl) == ~ StrIn(name, excl)

\* one iteration of  for hub in hubs  for a hub that passes the test:
\* get_robots (the robot list, or {} when the call fails), then put_robots
LoadHub ==
    /\ pc = "hubs"
    /\ h < Len(hubs)
    /\ NotExcluded(hubs[h + 1], excluded)
    /\ \E ok \in BOOLEAN :
         LET robots == IF ok THEN uim.robots[hubs[h + 1]] ELSE <<>> IN
         /\ enumerated' = Append(enumerated,
                [hub |-> hubs[h + 1], ok |-> ok,
                 put |-> put_result(db, hubs[h + 1], robots)])
         /\ db' = put_robots(db, hubs[h + 1], robots)
    /\ h' = h + 1
    /\ UNCHANGED <<pc, ackrun, mmrun, sleeps, config, hubs, targets, robot, found, pushed, attempts,
                   report, lookups, calls>>

\* one iteration of  for hub in hubs  for a hub that fails the test
SkipHub ==
    /\ pc = "hubs"
    /\ h < Len(hubs)
    /\ ~ NotExcluded(hubs[h + 1], excluded)
    /\ h' = h + 1
    /\ UNCHANGED <<pc, ackrun, mmrun, sleeps, config, hubs, db, enumerated, targets, robot, found,
                   pushed, attempts, report, lookups, calls>>

\* variant: the files are opened and the targets read while hubs are left
OpenFiles_BeforeLoopEnds ==
    /\ pc = "hubs"
    /\ h <= Len(hubs)
    /\ pc' = "targets"
    /\ UNCHANGED <<ackrun, mmrun, sleeps, config, build, targets, robot, found, pushed,
                   attempts, report, lookups, calls>>

\* the hub loop ends and the three files are opened
OpenFiles ==
    /\ pc = "hubs"
    /\ h = Len(hubs)
    /\ pc' = "targets"
    /\ UNCHANGED <<ackrun, mmrun, sleeps, config, build, targets, robot, found, pushed,
                   attempts, report, lookups, calls>>

\* variant of the normalisation: trimmed, the case kept
Normalise_KeepsCase(target) == Strip(target)

\* robot = target.strip().lower()
Normalise(target) == Lower(Strip(target))

\* variant of the write: the line goes in front of the earlier ones
Write_AtFront(f, line) == <<line>> \o f

\* f.write('{}\n'.format(robot)): one more line at the end of a report
Write(f, line) == Append(f, line)

\* variant of the test on found: a result that is never falsy
Truthy_Always(row) == TRUE

\* the test  if found:  on the row (a non-empty tuple) or None
Truthy(row) == row # None

\* one iteration of  for target in targets  up to the branch on found
ReadTarget ==
    /\ pc = "targets"
    /\ Len(targets) < MaxTargets
    /\ \E target \in TargetLines :
         /\ targets' = Append(targets, target)
         /\ robot' = Normalise(target)
         /\ \E row \in has_robot(db, robot') :
              /\ found' = row
              /\ lookups' = Append(lookups,
                    [t |-> Len(targets'), hostname |-> robot', row |-> row])
              /\ IF Truthy(row)
                 THEN /\ pc' = "push"
                      /\ f_norobot' = f_norobot
                 ELSE /\ pc' = "targets"
                      /\ f_norobot' = Write(f_norobot, robot')
    /\ UNCHANGED <<ackrun, mmrun, sleeps, config, build, pushed, attempts, times_pushed, f_pushed,
                   calls>>

\* variant of the first call: attempts keeps the value the target before
\* left in it
FirstPush_KeepsAttempts ==
    /\ pc = "push"
    /\ \E ok \in BOOLEAN :
         /\ pushed' = ok
         /\ calls' = Append(calls, [t |-> Len(targets), hub |-> found[1],
                                    robot |-> found[2], ok |-> ok,
                                    delayed |-> FALSE])
    /\ attempts' = attempts
    /\ pc' = "retry"
    /\ UNCHANGED <<ackrun, mmrun, sleeps, config, build, targets, robot, found, report, lookups>>

\* variant of the first call: the robot passed is the text looked up
FirstPush_PassesTarget ==
    /\ pc = "push"
    /\ \E ok \in BOOLEAN :
         /\ pushed' = ok
         /\ calls' = Append(calls, [t |-> Len(targets), hub |-> found[1],
                                    robot |-> robot, ok |-> ok,
                                    delayed |-> FALSE])
    /\ attempts' = 0
    /\ pc' = "retry"
    /\ UNCHANGED <<ackrun, mmrun, sleeps, config, build, targets, robot, found,
                   report, lookups>>

\* pushed = push_pkg(...found[0], found[1]); attempts = 0
FirstPush ==
    /\ pc = "push"
    /\ \E ok \in BOOLEAN :
         /\ pushed' = ok
         /\ calls' = Append(calls, [t |-> Len(targets), hub |-> found[1],
                                    robot |-> found[2], ok |-> ok,
                                    delayed |-> FALSE])
    /\ attempts' = 0
    /\ pc' = "retry"
    /\ UNCHANGED <<ackrun, mmrun, sleeps, config, build, targets, robot, found, report, lookups>>

\* variants of the loop test: one retry too many; retrying after a success
RetryTest_OffByOne(p, a, n) == ~ p /\ a <= n
RetryTest_IgnoresSuccess(p, a, n) == a < n

\* variant of the loop test: one retry is made whatever the setting
RetryTest_AtLeastOnce(p, a, n) == ~ p /\ (a < n \/ a < 1)

\* the loop test  not pushed and attempts < retries
RetryTest(p, a, n) == ~ p /\ a < n

\* variant of the iteration: the store is asked again before the call
Retry_LooksUpAgain ==
    /\ pc = "retry"
    /\ RetryTest(pushed, attempts, retries)
    /\ \E row \in has_robot(db, robot) \ {None} : \E ok \in BOOLEAN :
         /\ found' = row
         /\ lookups' = Append(lookups,
               [t |-> Len(targets), hostname |-> robot, row |-> row])
         /\ pushed' = ok
         /\ calls' = Append(calls, [t |-> Len(targets), hub |-> row[1],
                                    robot |-> row[2], ok |-> ok,
                                    delayed |-> TRUE])
    /\ attempts' = attempts + 1
    /\ sleeps' = Append(sleeps, [t |-> Len(targets), after |-> Len(calls)])
    /\ UNCHANGED <<pc, ackrun, mmrun, config, build, targets, robot, report>>

\* variant of the iteration: sleep(delay) before the call and after it
Retry_SleepsAfterCall ==
    /\ pc = "retry"
    /\ RetryTest(pushed, attempts, retries)
    /\ \E ok \in BOOLEAN :
         /\ pushed' = ok
         /\ calls' = Append(calls, [t |-> Len(targets), hub |-> found[1],
                                    robot |-> found[2], ok |-> ok,
                                    delayed |-> TRUE])
    /\ attempts' = attempts + 1
    /\ sleeps' = sleeps \o << [t |-> Len(targets), after |-> Len(calls)],
                              [t |-> Len(targets), after |-> Len(calls')] >>
    /\ UNCHANGED <<pc, ackrun, mmrun, config, build, targets, robot, found, report, lookups>>

\* one iteration of the while loop: sleep(delay), push_pkg, attempts += 1
Retry ==
    /\ pc = "retry"
    /\ RetryTest(pushed, attempts, retries)
    /\ \E ok \in BOOLEAN :
         /\ pushed' = ok
         /\ calls' = Append(calls, [t |-> Len(targets), hub |-> found[1],
                                    robot |-> found[2], ok |-> ok,
                                    delayed |-> TRUE])
    /\ attempts' = attempts + 1
    /\ sleeps' = Append(sleeps, [t |-> Len(targets), after |-> Len(calls)])
    /\ UNCHANGED <<pc, ackrun, mmrun, config, build, targets, robot, found, report, lookups>>

\* variant of the end of the loop: the robot is written whatever pushed is
Record_Unconditional ==
    /\ pc = "retry"
    /\ ~ RetryTest(pushed, attempts, retries)
    /\ f_pushed' = Write(f_pushed, robot)
    /\ times_pushed' = times_pushed + 1
    /\ pc' = "targets"
    /\ UNCHANGED <<ackrun, mmrun, sleeps, config, build, targets, robot, found, pushed, attempts,
                   f_norobot, lookups, calls>>

\* variant of the end of the loop: a target that was not pushed to ends
\* the run
Record_AbortsOnFailure ==
    /\ pc = "retry"
    /\ ~ RetryTest(pushed, attempts, retries)
    /\ IF pushed
       THEN /\ f_pushed' = Write(f_pushed, robot)
            /\ times_pushed' = times_pushed + 1
            /\ pc' = "targets"
       ELSE /\ UNCHANGED <<f_pushed, times_pushed>>
            /\ pc' = "aborted"
    /\ UNCHANGED <<ackrun, mmrun, sleeps, config, build, targets, robot, found, pushed, attempts,
                   f_norobot, lookups, calls>>

\* variant of the end of the loop: the count is taken outside the  if
Record_CountsEvery ==
    /\ pc = "retry"
    /\ ~ RetryTest(pushed, attempts, retries)
    /\ f_pushed' = IF pushed THEN Write(f_pushed, robot) ELSE f_pushed
    /\ times_pushed' = times_pushed + 1
    /\ pc' = "targets"
    /\ UNCHANGED <<ackrun, mmrun, sleeps, config, build, targets, robot, found, pushed, attempts,
                   f_norobot, lookups, calls>>

\* variant of the pushed report: the robot name of the row is written
Record_WritesStoredName ==
    /\ pc = "retry"
    /\ ~ RetryTest(pushed, attempts, retries)
    /\ IF pushed
       THEN /\ f_pushed' = Write(f_pushed, found[2])
            /\ times_pushed' = times_pushed + 1
       ELSE UNCHANGED <<f_pushed, times_pushed>>
    /\ pc' = "targets"
    /\ UNCHANGED <<ackrun, mmrun, sleeps, config, build, targets, robot, found, pushed,
                   attempts, f_norobot, lookups, calls>>

\* the while loop ends:  if pushed: write the robot and count it
Record ==
    /\ pc = "retry"
    /\ ~ RetryTest(pushed, attempts, retries)
    /\ IF pushed
       THEN /\ f_pushed' = Write(f_pushed, robot)
            /\ times_pushed' = times_pushed + 1
       ELSE UNCHANGED <<f_pushed, times_pushed>>
    /\ pc' = "targets"
    /\ UNCHANGED <<ackrun, mmrun, sleeps, config, build, targets, robot, found, pushed, attempts,
                   f_norobot, lookups, calls>>

\* variant of the end of the run: the table is dropped
EndOfTargets_DropsStore ==
    /\ pc = "targets"
    /\ pc' = "done"
    /\ db' = [db EXCEPT !.exists = FALSE, !.rows = <<>>]
    /\ UNCHANGED <<ackrun, mmrun, sleeps, config, hubs, h, enumerated, targets, robot,
                   found, pushed, attempts, report, lookups, calls>>

\* variant of the end of the run: the loop does not see the end of the file
EndOfTargets_NeverSeen ==
    /\ pc = "targets"
    /\ pc' = "targets"
    /\ UNCHANGED <<ackrun, mmrun, sleeps, config, build, targets, robot, found,
                   pushed, attempts, report, lookups, calls>>

\* the file iterator is exhausted: the with block and main() end
EndOfTargets ==
    /\ pc = "targets"
    /\ pc' = "done"
    /\ UNCHANGED <<ackrun, mmrun, sleeps, config, build, targets, robot, found, pushed,
                   attempts, report, lookups, calls>>

Next ==
    \/ CreateDb
    \/ GetHubs
    \/ LoadHub
    \/ SkipHub
    \/ OpenFiles
    \/ ReadTarget
    \/ FirstPush
    \/ Retry
    \/ Record
    \/ EndOfTargets

Spec == Init /\ [][Next]_vars

\* ------------------------------------------------------------------ robotdb
\* The store operations on their own, called in any order on a store file
\* that opens: create_db, put_robots with the robot list of a hub, has_robot.
InitStore ==
    /\ pc = "store"
    /\ retries = 0
    /\ excluded = <<>>
    /\ uim \in Topologies
    /\ db \in StaleStores \cup { d \in FaultyStores : d.openable }
    /\ hubs = <<>>
    /\ h = 0
    /\ targets = <<>>
    /\ robot = <<>>
    /\ found = None
    /\ pushed = FALSE
    /\ attempts = 0
    /\ times_pushed = 0
    /\ f_norobot = <<>>
    /\ f_pushed = <<>>
    /\ enumerated = <<>>
    /\ lookups = <<>>
    /\ calls = <<>>
    /\ alarms = <<>>
    /\ alarm = 0
    /\ hub_robot = None
    /\ invoked = <<>>
    /\ systems = <<>>
    /\ line_no = 0
    /\ comp_sys_name = <<>>
    /\ cs_ids = <<>>
    /\ asked = <<>>
    /\ sleeps = <<>>

\* create_db(robotdb): returns True unless a statement raised Error
StoreReset ==
    /\ pc \in {"store", "reset", "reset_failed", "put", "lookup"}
    /\ db' = create_db(db)
    /\ pc' = IF db.writable THEN "reset" ELSE "reset_failed"
    /\ UNCHANGED <<ackrun, mmrun, sleeps, config, hubs, h, enumerated, targets, robot, found, pushed,
                   attempts, report, lookups, calls>>

\* put_robots(robotdb, hub, robots)
StorePut ==
    /\ pc \in {"store", "reset", "reset_failed", "put", "lookup"}
    /\ \E k \in 1..Len(uim.hubs) :
          db' = put_robots(db, uim.hubs[k], uim.robots[uim.hubs[k]])
    /\ pc' = "put"
    /\ UNCHANGED <<ackrun, mmrun, sleeps, config, hubs, h, enumerated, targets, robot, found, pushed,
                   attempts, report, lookups, calls>>

\* has_robot(robotdb, hostname)
StoreLookup ==
    /\ pc \in {"store", "reset", "reset_failed", "put", "lookup"}
    /\ \E hostname \in {srv1, Srv1, srv2, srv3, SRV3, srv4} :
          /\ robot' = hostname
          /\ found' \in has_robot(db, hostname)
    /\ pc' = "lookup"
    /\ UNCHANGED <<ackrun, mmrun, sleeps, config, build, targets, pushed, attempts, report, lookups,
                   calls>>

NextStore ==
    \/ StoreReset
    \/ StorePut
    \/ StoreLookup

SpecStore == InitStore /\ [][NextStore]_vars

\* --------------------------------------- push-pkg-by-robot, store at fault
\* The run of main() on a store file that cannot be opened or written.
InitFaulty ==
    /\ pc = "create_db"
    /\ retries \in (-1)..MaxRetries
    /\ excluded \in ExcludeSettings
    /\ uim \in Topologies
    /\ db \in FaultyStores
    /\ hubs = <<>>
    /\ h = 0
    /\ targets = <<>>
    /\ robot = <<>>
    /\ found = None
    /\ pushed = FALSE
    /\ attempts = 0
    /\ times_pushed = 0
    /\ f_norobot = <<>>
    /\ f_pushed = <<>>
    /\ enumerated = <<>>
    /\ lookups = <<>>
    /\ calls = <<>>
    /\ alarms = <<>>
    /\ alarm = 0
    /\ hub_robot = None
    /\ invoked = <<>>
    /\ systems = <<>>
    /\ line_no = 0
    /\ comp_sys_name = <<>>
    /\ cs_ids = <<>>
    /\ asked = <<>>
    /\ sleeps = <<>>

SpecFaulty == InitFaulty /\ [][Next]_vars

\* ---------------------------------- push-pkg-by-robot, the dispatch loop
\* The run of main() with the exclusion settings "" and "HUB-B", on a store
\* file that holds the table of an earlier run.
InitDispatch ==
    /\ pc = "create_db"
    /\ retries \in (-1)..MaxRetries
    /\ excluded \in { e \in ExcludeSettings : Len(e) <= Len(HUB_B) }
    /\ uim \in Topologies
    /\ db \in { d \in StaleStores : d.exists }
    /\ hubs = <<>>
    /\ h = 0
    /\ targets = <<>>
    /\ robot = <<>>
    /\ found = None
    /\ pushed = FALSE
    /\ attempts = 0
    /\ times_pushed = 0
    /\ f_norobot = <<>>
    /\ f_pushed = <<>>
    /\ enumerated = <<>>
    /\ lookups = <<>>
    /\ calls = <<>>
    /\ alarms = <<>>
    /\ alarm = 0
    /\ hub_robot = None
    /\ invoked = <<>>
    /\ systems = <<>>
    /\ line_no = 0
    /\ comp_sys_name = <<>>
    /\ cs_ids = <<>>
    /\ asked = <<>>
    /\ sleeps = <<>>

SpecDispatch == InitDispatch /\ [][Next]_vars

\* The same run when every call made (a request to the web service, a
\* statement on the store, a sleep, a read of the file) returns: main() is
\* one thread, so a step that can be taken is taken.
SpecLive == InitDispatch /\ [][Next]_vars /\ WF_vars(Next)

\* --------------------------------------------------------- ackrobotinactive
\* hub['robotName']: the robot that hosts each hub
robotName == [n \in HubNames |-> <<"r", "-">> \o n]

\* find_hub_robot: the robotName of the first hub of that name, or None
RECURSIVE find_hub_robot(_, _)
find_hub_robot(hs, hub_name) ==
    IF hs = <<>> THEN None
    ELSE IF Head(hs) = hub_name THEN robotName[Head(hs)]
    ELSE find_hub_robot(Tail(hs), hub_name)

\* Robot Inactive alarms: source, robot[0] and hub[0] of each
Alarms ==
    { [source |-> srv1, robot |-> srv1, hub |-> HUB_A],
      [source |-> srv3, robot |-> srv3, hub |-> HUB_B],
      [source |-> srv2, robot |-> srv2, hub |-> HUB] }

\* what get_alarms can return for the filter
AlarmLists == UNION { [1..n -> Alarms] : n \in 0..MaxAlarms }

InitAck ==
    /\ pc = "get_alarms"
    /\ retries = 0
    /\ excluded = <<>>
    /\ uim \in Topologies
    /\ db \in { d \in StaleStores : ~ d.exists }
    /\ hubs = <<>>
    /\ h = 0
    /\ targets = <<>>
    /\ robot = <<>>
    /\ found = None
    /\ pushed = FALSE
    /\ attempts = 0
    /\ times_pushed = 0
    /\ f_norobot = <<>>
    /\ f_pushed = <<>>
    /\ enumerated = <<>>
    /\ lookups = <<>>
    /\ calls = <<>>
    /\ alarms = <<>>
    /\ alarm = 0
    /\ hub_robot = None
    /\ invoked = <<>>
    /\ systems = <<>>
    /\ line_no = 0
    /\ comp_sys_name = <<>>
    /\ cs_ids = <<>>
    /\ asked = <<>>
    /\ sleeps = <<>>

\* alarms = get_alarms(uim_ws, alarm_filter): the list, or {} when it fails
AckGetAlarms ==
    /\ pc = "get_alarms"
    /\ \E ok \in BOOLEAN : \E list \in AlarmLists :
          alarms' = IF ok THEN list ELSE <<>>
    /\ alarm' = 0
    /\ pc' = "alarms"
    /\ UNCHANGED <<mmrun, sleeps, config, build, targets, robot, found, pushed,
                   attempts, report, lookups, calls, hub_robot, invoked>>

\* one iteration of  for alarm in alarms : is_reachable, and for a source
\* that does not answer get_hubs, find_hub_robot, remove_robot (which raises
\* TypeError when hub_robot is None) and acknowledge_alarm
AckAlarm ==
    /\ pc = "alarms"
    /\ alarm < Len(alarms)
    /\ alarm' = alarm + 1
    /\ \E pingable \in BOOLEAN :
          IF pingable
          THEN /\ invoked' = Append(invoked,
                      [op |-> "is_reachable", alarm |-> alarm', result |-> "True"])
               /\ UNCHANGED <<pc, hubs, hub_robot>>
          ELSE \E ok \in BOOLEAN :
               /\ hubs' = IF ok THEN uim.hubs ELSE <<>>
               /\ hub_robot' = find_hub_robot(hubs', alarms[alarm'].hub)
               /\ IF hub_robot' = None
                  THEN /\ invoked' = invoked \o
                            << [op |-> "is_reachable", alarm |-> alarm', result |-> "False"],
                               [op |-> "remove_robot", alarm |-> alarm', result |-> "TypeError"] >>
                       /\ pc' = "aborted"
                  ELSE /\ \E removed \in {"True", "False"} :
                          \E closed \in {"True", "False"} :
                            invoked' = invoked \o
                            << [op |-> "is_reachable", alarm |-> alarm', result |-> "False"],
                               [op |-> "remove_robot", alarm |-> alarm', result |-> removed],
                               [op |-> "acknowledge_alarm", alarm |-> alarm', result |-> closed] >>
                       /\ pc' = pc
    /\ UNCHANGED <<mmrun, sleeps, config, db, h, enumerated, targets, robot, found,
                   pushed, attempts, report, lookups, calls, alarms>>

\* the alarm list is exhausted: main() ends
AckEnd ==
    /\ pc = "alarms"
    /\ alarm = Len(alarms)
    /\ pc' = "done"
    /\ UNCHANGED <<ackrun, mmrun, sleeps, config, build, targets, robot, found, pushed,
                   attempts, report, lookups, calls>>

NextAck ==
    \/ AckGetAlarms
    \/ AckAlarm
    \/ AckEnd

SpecAck == InitAck /\ [][NextAck]_vars

\* ---------------------------------------------------------- maintenancemode
\* lines a systems list file can hold: a name, a name given in upper case
\* with blanks around it, an empty line, and a last line without newline
SystemLines ==
    { srv1 \o <<"\n">>, <<" ">> \o SRV3 \o <<" ", "\n">>, <<"\n">>, srv2 }

\* the files: a line without newline can only be the last one
SystemFiles ==
    { f \in UNION { [1..n -> SystemLines] : n \in 0..MaxLines } :
        \A i \in 1..(Len(f) - 1) : f[i][Len(f[i])] = "\n" }

\* what get_comp_sys_ids can return for a device: no id (unknown device,
\* non-200 status, ConnectionError, KeyError), one id, or the ids of
\* duplicate devices
IdLists(device) ==
    { <<>>,
      <<[cs |-> device, dup |-> 1]>>,
      <<[cs |-> device, dup |-> 1], [cs |-> device, dup |-> 2]>> }

\* systems.readline() after n lines were returned: the next line, or the
\* empty string at the end of the file
readline(f, n) == IF n < Len(f) THEN f[n + 1] ELSE <<>>

InitSystems ==
    /\ pc = "get_systems_list"
    /\ retries = 0
    /\ excluded = <<>>
    /\ uim = TwoHubs
    /\ db \in { d \in StaleStores : ~ d.exists }
    /\ hubs = <<>>
    /\ h = 0
    /\ targets = <<>>
    /\ robot = <<>>
    /\ found = None
    /\ pushed = FALSE
    /\ attempts = 0
    /\ times_pushed = 0
    /\ f_norobot = <<>>
    /\ f_pushed = <<>>
    /\ enumerated = <<>>
    /\ lookups = <<>>
    /\ calls = <<>>
    /\ alarms = <<>>
    /\ alarm = 0
    /\ hub_robot = None
    /\ invoked = <<>>
    /\ systems \in SystemFiles
    /\ line_no = 0
    /\ comp_sys_name = <<>>
    /\ cs_ids = <<>>
    /\ asked = <<>>
    /\ sleeps = <<>>

\* cs_ids = []; open the file; comp_sys_name = systems.readline().strip()
SystemsOpen ==
    /\ pc = "get_systems_list"
    /\ cs_ids' = <<>>
    /\ comp_sys_name' = Strip(readline(systems, line_no))
    /\ line_no' = IF line_no < Len(systems) THEN line_no + 1 ELSE line_no
    /\ pc' = "while"
    /\ UNCHANGED <<ackrun, sleeps, config, build, targets, robot, found, pushed,
                   attempts, report, lookups, calls, systems, asked>>

\* one iteration of  while comp_sys_name : get_comp_sys_ids, append each id,
\* read and strip the next line
SystemsLine ==
    /\ pc = "while"
    /\ comp_sys_name # <<>>
    /\ \E cs_id_list \in IdLists(comp_sys_name) :
          /\ asked' = Append(asked, [name |-> comp_sys_name, ids |-> cs_id_list])
          /\ cs_ids' = cs_ids \o cs_id_list
    /\ comp_sys_name' = Strip(readline(systems, line_no))
    /\ line_no' = IF line_no < Len(systems) THEN line_no + 1 ELSE line_no
    /\ UNCHANGED <<pc, ackrun, sleeps, config, build, targets, robot, found, pushed,
                   attempts, report, lookups, calls, systems>>

\* comp_sys_name is empty: the loop and the with block end, return cs_ids
SystemsReturn ==
    /\ pc = "while"
    /\ comp_sys_name = <<>>
    /\ pc' = "returned"
    /\ UNCHANGED <<ackrun, mmrun, sleeps, config, build, targets, robot, found, pushed,
                   attempts, report, lookups, calls>>

NextSystems ==
    \/ SystemsOpen
    \/ SystemsLine
    \/ SystemsReturn

SpecSystems == InitSystems /\ [][NextSystems]_vars


\* ------------------------------------------------- reading a run's history
Max(a, b) == IF a >= b THEN a ELSE b

\* the push_pkg calls made for the t-th target, in the order made
CallsOf(t) == SelectSeq(calls, LAMBDA c : c.t = t)

NumCalls(t)  == Cardinality({ i \in 1..Len(calls) : calls[i].t = t })
AllFailed(t) == \A i \in 1..Len(calls) : calls[i].t = t => ~ calls[i].ok
Succeeded(t) == \E i \in 1..Len(calls) : calls[i].t = t /\ calls[i].ok

\* the t-th target's lookup returned a row
Resolved(t) == lookups[t].row # None

\* the loop body for the t-th target has run to its end
Finished(t) ==
    \/ t < Len(targets)
    \/ t = Len(targets) /\ pc \in {"targets", "done"}

FinishedTargets == { t \in 1..Len(targets) : Finished(t) }

\* the name a line of the target file stands for: trimmed, in lower case
NameOfLine == [line \in TargetLines |-> Lower(Strip(line))]

\* the name under which the t-th target is looked up and reported
NameOf(t) == NameOfLine[targets[t]]

\* the names of the targets whose index is in S, in input order
NamesIn(S) ==
    LET idx == SelectSeq([k \in 1..Len(targets) |-> k], LAMBDA t : t \in S)
    IN  [k \in 1..Len(idx) |-> NameOf(idx[k])]

UnresolvedTargets == { t \in FinishedTargets : ~ Resolved(t) }
PushedTargets     == { t \in FinishedTargets : Succeeded(t) }
ExhaustedTargets  == { t \in FinishedTargets : Resolved(t) /\ AllFailed(t) }

\* --------------------------------------------------------------- claims

\* C1: with retries = N >= 0, a resolved target whose every deployment call
\* fails receives exactly N + 1 calls and no more, and adds neither a line to
\* the pushed report nor one to the count.
C1_RetryBound ==
    retries >= 0 =>
      /\ \A t \in 1..Len(targets) : NumCalls(t) <= retries + 1
      /\ \A t \in ExhaustedTargets : NumCalls(t) = retries + 1
      /\ Len(f_pushed) = Cardinality((FinishedTargets \ ExhaustedTargets)
                                        \ UnresolvedTargets)
      /\ times_pushed = Len(f_pushed)

\* a target with two retries configured failed three calls and the loop
\* went on to the next line
C1_Witness ==
    /\ retries = MaxRetries
    /\ \E t \in ExhaustedTargets :
          /\ NumCalls(t) = MaxRetries + 1
          /\ t < Len(targets)
    /\ f_pushed = <<>>

\* C2: if the calls for a resolved target fail k - 1 times and the k-th
\* succeeds (k <= retries + 1), exactly k calls are made, none after the
\* success, and the target is recorded as pushed.
C2_RetrySuccess ==
    /\ \A t \in 1..Len(targets) :
          LET cs == CallsOf(t) IN
          /\ \A i \in 1..Len(cs) :
                cs[i].ok => i = Len(cs) /\ i <= Max(retries, 0) + 1
          /\ (cs # <<>> /\ ~ cs[Len(cs)].ok /\ Finished(t))
                => Len(cs) = Max(retries, 0) + 1
    /\ LET P == PushedTargets IN
          /\ f_pushed = NamesIn(P)
          /\ times_pushed = Cardinality(P)

\* fail once, then succeed: two calls, and the target is in the pushed report
C2_Witness ==
    /\ retries >= 1
    /\ \E t \in PushedTargets :
          /\ Len(CallsOf(t)) = 2
          /\ ~ CallsOf(t)[1].ok
          /\ CallsOf(t)[2].ok
          /\ f_pushed[Len(f_pushed)] = NameOf(t)
          /\ t = Len(targets)

\* C3: a target whose lookup returns nothing gets no deployment call, is
\* written to the unresolved report, and the loop moves on to the next line.
C3_UnresolvedNoCall ==
    /\ \A t \in 1..Len(lookups) :
          ~ Resolved(t) => NumCalls(t) = 0 /\ Finished(t)
    /\ f_norobot = NamesIn(UnresolvedTargets)
    /\ Len(lookups) = Len(targets)

\* an unresolved target was followed by a target that was pushed to
C3_Witness ==
    \E t \in UnresolvedTargets :
        /\ f_norobot # <<>>
        /\ t < Len(targets)
        /\ Succeeded(t + 1)
        /\ NumCalls(t) = 0

\* every spelling of a character, and of a string, that differs only in case
Letters ==
    { UPPERCASE[i] : i \in 1..Len(UPPERCASE) }
        \cup { LOWERCASE[i] : i \in 1..Len(LOWERCASE) }

Cases == [c \in Letters |-> { x \in Letters : LowerChar(x) = LowerChar(c) }]

CasesOf(c) == IF c \in Letters THEN Cases[c] ELSE {c}

RECURSIVE CaseVariants(_)
CaseVariants(s) ==
    IF s = <<>> THEN { <<>> }
    ELSE { <<c>> \o v : c \in CasesOf(Head(s)), v \in CaseVariants(Tail(s)) }

RobotNames == {srv1, Srv1, srv2, srv3, SRV3, srv4}

Variants == [n \in RobotNames |-> CaseVariants(n)]

\* the lower-case spelling of each robot name and each target name
LowerName ==
    [n \in RobotNames \cup { NameOfLine[l] : l \in TargetLines } |-> Lower(n)]

\* the hubs under which the store holds a hostname, whatever its case
StoredHubs(name) ==
    { db.rows[i].hub : i \in { j \in 1..Len(db.rows) :
                                  LowerName[db.rows[j].robot] = LowerName[name] } }

\* C4: a hostname the store holds under exactly one hub is resolved to that
\* hub by has_robot for every upper/lower-case spelling of the input,
\* whatever the case of the stored robot name: on every store the build
\* produces, and in every lookup of the run.
C4_CaseInsensitiveLookup ==
    /\ lookups = <<>> =>
        \A i \in 1..Len(db.rows) :
          StoredHubs(db.rows[i].robot) = {db.rows[i].hub} =>
              \A v \in Variants[db.rows[i].robot] :
                  \A res \in has_robot(db, v) :
                      res # None /\ res[1] = db.rows[i].hub
    /\ \A t \in 1..Len(lookups) :
          LET hs == StoredHubs(lookups[t].hostname) IN
          Cardinality(hs) = 1 => Resolved(t) /\ lookups[t].row[1] \in hs

\* a target was resolved through a row stored in another case than the
\* hostname looked up
C4_Witness ==
    \E t \in 1..Len(lookups) :
        /\ Cardinality(StoredHubs(lookups[t].hostname)) = 1
        /\ Resolved(t)
        /\ lookups[t].row[2] # lookups[t].hostname
        /\ Lower(lookups[t].row[2]) = lookups[t].hostname

\* the robot names passed to put_robots during the build
LoadedRobots ==
    UNION { { uim.robots[enumerated[i].hub][k] :
                 k \in 1..Len(uim.robots[enumerated[i].hub]) } :
            i \in { j \in 1..Len(enumerated) : enumerated[j].ok } }

NotLoaded(name) == \A r \in LoadedRobots : LowerName[r] # LowerName[name]

BuildDone == pc \in {"targets", "push", "retry", "done"}

\* C5: a target that occurs, in any case, in no robot list loaded during the
\* build is not found by the lookup and ends as unresolved.
C5_AbsentIsUnresolved ==
    /\ (BuildDone /\ lookups = <<>>) =>
          \A line \in TargetLines :
              NotLoaded(NameOfLine[line]) => has_robot(db, NameOfLine[line]) = {None}
    /\ \A t \in 1..Len(lookups) :
          NotLoaded(NameOf(t)) =>
              /\ ~ Resolved(t)
              /\ Finished(t)
              /\ \E k \in 1..Len(f_norobot) : f_norobot[k] = NameOf(t)
    /\ Len(f_norobot) = Cardinality(UnresolvedTargets)

\* srv4 is in no loaded robot list, the store is not empty, and srv4 is in
\* the unresolved report
C5_Witness ==
    /\ db.rows # <<>>
    /\ \E t \in UnresolvedTargets :
          /\ NameOf(t) = srv4
          /\ NotLoaded(srv4)
          /\ f_norobot[Len(f_norobot)] = srv4

\* the run of the scenario: the two hubs, nothing excluded, one retry, the
\* targets srv1, srv4, SRV3, every web-service call answered 200
ScenarioRun ==
    /\ pc = "done"
    /\ uim = TwoHubs
    /\ excluded = <<>>
    /\ retries = 1
    /\ hubs = uim.hubs
    /\ Len(enumerated) = 2
    /\ \A i \in 1..Len(enumerated) : enumerated[i].ok
    /\ [t \in 1..Len(targets) |-> Strip(targets[t])] = <<srv1, srv4, SRV3>>
    /\ \A i \in 1..Len(calls) : calls[i].ok

\* C6 as stated: the scenario ends with the pushed report srv1, SRV3 and
\* the unresolved report srv4.
C6_ScenarioAsStated ==
    ScenarioRun => f_pushed = <<srv1, SRV3>> /\ f_norobot = <<srv4>>

\* C6 amended: the scenario ends with the pushed report srv1, srv3 (the
\* lower-cased names) and the unresolved report srv4.
C6_Scenario ==
    ScenarioRun => /\ f_pushed = <<srv1, srv3>>
                   /\ f_norobot = <<srv4>>
                   /\ times_pushed = 2

C6_Witness == ScenarioRun /\ Len(calls) = 2

\* the hub names listed in the "exclude" setting, separated by ","
RECURSIVE Split(_, _)
Split(s, cur) ==
    IF s = <<>> THEN {cur}
    ELSE IF Head(s) = "," THEN {cur} \cup Split(Tail(s), <<>>)
    ELSE Split(Tail(s), Append(cur, Head(s)))

ExcludedNames == Split(excluded, <<>>) \ { <<>> }

\* the hubs of the domain that list the name, in any case, as a robot
OwnersOf(name) ==
    { uim.hubs[k] : k \in { j \in 1..Len(uim.hubs) :
        \E i \in 1..Len(uim.robots[uim.hubs[j]]) :
            LowerName[uim.robots[uim.hubs[j]][i]] = LowerName[name] } }

\* C7: a hub named in the exclusion setting is never enumerated and has no
\* row in the store, and a target that is a robot of excluded hubs only ends
\* as unresolved, without a deployment call.
C7_ExcludedHubNotLoaded ==
    /\ \A i \in 1..Len(enumerated) : enumerated[i].hub \notin ExcludedNames
    /\ pc # "create_db" =>
          \A i \in 1..Len(db.rows) : db.rows[i].hub \notin ExcludedNames
    /\ \A t \in 1..Len(lookups) :
          LET owners == OwnersOf(NameOf(t)) IN
          (owners # {} /\ owners \subseteq ExcludedNames)
              => /\ ~ Resolved(t)
                 /\ NumCalls(t) = 0
                 /\ Finished(t)
                 /\ \E k \in 1..Len(f_norobot) : f_norobot[k] = NameOf(t)

\* the scenario: HUB-B excluded, target srv3 unresolved, HUB-A loaded
C7_Witness ==
    /\ uim = TwoHubs
    /\ excluded = HUB_B
    /\ \E i \in 1..Len(db.rows) : db.rows[i].hub = HUB_A
    /\ \E t \in UnresolvedTargets : NameOf(t) = srv3 /\ f_norobot[t] = srv3

\* C8 as stated: after the build, a hub of the hub list has been enumerated
\* if and only if its name is not one of the excluded names.
C8_LoadedIffNotExcluded ==
    (BuildDone /\ hubs = uim.hubs) =>
        \A k \in 1..Len(hubs) :
            hubs[k] \notin ExcludedNames
                <=> \E i \in 1..Len(enumerated) : enumerated[i].hub = hubs[k]

\* C9: targets are processed in input order, and each report lists its
\* targets in the order of the target list.
C9_InputOrder ==
    /\ \A k \in 1..Len(lookups) : lookups[k].t = k
    /\ \A i, j \in 1..Len(calls) : i < j => calls[i].t <= calls[j].t
    /\ \A i \in 1..Len(calls) : calls[i].t <= Len(lookups)
    /\ f_norobot = NamesIn(UnresolvedTargets)
    /\ f_pushed = NamesIn(PushedTargets)

\* two different targets were pushed to, and one before them was unresolved
C9_Witness ==
    /\ Len(f_pushed) = 2
    /\ f_pushed[1] # f_pushed[2]
    /\ Len(f_norobot) = 1
    /\ PushedTargets = {2, 3}

\* lines of a report equal to a name
Count(f, name) == Cardinality({ k \in 1..Len(f) : f[k] = name })

\* C10: a target is in the unresolved report iff its lookup returned
\* nothing and in the pushed report iff one of its calls succeeded; one that
\* resolved and failed every call is in neither, and none is in both.
C10_ReportPartition ==
    LET U == UnresolvedTargets
        P == PushedTargets
    IN  /\ \A line \in TargetLines :
              LET name == NameOfLine[line] IN
              /\ Count(f_norobot, name)
                    = Cardinality({ t \in U : NameOf(t) = name })
              /\ Count(f_pushed, name)
                    = Cardinality({ t \in P : NameOf(t) = name })
        /\ Len(f_norobot) + Len(f_pushed) + Cardinality(ExhaustedTargets)
              = Cardinality(FinishedTargets)
        /\ U \cap P = {}

\* a target resolved and failed every call: it is in neither report, while
\* each report holds another target
C10_Witness ==
    /\ \E t \in ExhaustedTargets :
          /\ NumCalls(t) = retries + 1
          /\ Count(f_norobot, NameOf(t)) = 0
          /\ Count(f_pushed, NameOf(t)) = 0
    /\ Len(f_norobot) = 1
    /\ Len(f_pushed) = 1

\* C11: at every point of the dispatch loop and at the end of the run,
\* times_pushed is the number of lines of the pushed report, which is the
\* number of targets handled so far for which a deployment call succeeded.
C11_CountMatchesReport ==
    /\ times_pushed = Len(f_pushed)
    /\ times_pushed = Cardinality({ t \in FinishedTargets : Succeeded(t) })

\* the run ended with two targets pushed to and one that failed every call
C11_Witness ==
    /\ pc = "done"
    /\ times_pushed = 2
    /\ ExhaustedTargets # {}

\* C12: after any sequence of create_db, put_robots and has_robot calls, a
\* create_db that succeeds leaves the table present and empty, so that no
\* lookup returns a row, whatever was stored or found before it; this holds
\* after each of two successive calls alike.
C12_ResetEmpties ==
    pc = "reset" =>
        /\ db.exists
        /\ db.rows = <<>>
        /\ \A n \in RobotNames : has_robot(db, n) = {None}

\* a row that a lookup returned before the reset is not found after it
C12_Witness ==
    /\ pc = "reset"
    /\ found # None
    /\ has_robot(db, found[2]) = {None}

\* the positions in the build of the loaded hubs (get_robots answered 200)
\* whose robot list holds r in exactly this spelling
Listings(r) ==
    { i \in 1..Len(enumerated) :
        /\ enumerated[i].ok
        /\ \E k \in 1..Len(uim.robots[enumerated[i].hub]) :
              uim.robots[enumerated[i].hub][k] = r }

FirstOf(L) == CHOOSE i \in L : \A j \in L : i <= j
LastOf(L)  == CHOOSE i \in L : \A j \in L : j <= i

\* the hubs of the rows whose robot is r in exactly this spelling
RowHubs(r) ==
    { db.rows[i].hub : i \in { j \in 1..Len(db.rows) : db.rows[j].robot = r } }

\* C13 as stated: a hostname reported under two loaded hubs is mapped, after
\* the build, to the hub that was written last.
C13_LastWriteWins ==
    BuildDone =>
        \A r \in RobotNames :
            Cardinality(Listings(r)) >= 2 =>
                RowHubs(r) = { enumerated[LastOf(Listings(r))].hub }

\* C13: a hostname reported, in one spelling, under two hubs that are both
\* loaded in one build has exactly one row after the build, and that row maps
\* it to the hub that was written first: the later insert is rejected by the
\* primary key and skipped.
C13_FirstWriteWins ==
    BuildDone =>
        \A r \in RobotNames :
            Cardinality(Listings(r)) >= 2 =>
                /\ RowHubs(r) = { enumerated[FirstOf(Listings(r))].hub }
                /\ Cardinality({ j \in 1..Len(db.rows) : db.rows[j].robot = r }) = 1

\* srv3 was loaded under HUB-A and then under HUB-B, and a target was
\* resolved to it
C13_Witness ==
    /\ pc = "done"
    /\ Cardinality(Listings(srv3)) = 2
    /\ \E t \in 1..Len(lookups) : lookups[t].row = <<HUB_A, srv3>>

\* the robot list that the i-th put_robots of the build was given
ListOf(i) ==
    IF enumerated[i].ok THEN uim.robots[enumerated[i].hub] ELSE <<>>

\* r, in exactly this spelling, was in the list of a put_robots before the i-th
PutBefore(r, i) ==
    \E j \in 1..(i - 1) : \E k \in 1..Len(ListOf(j)) : ListOf(j)[k] = r

\* C14: in every put_robots of the build, each robot of the list whose
\* insert does not fail (it was not stored before) is stored under the hub,
\* also when the insert of another robot of the list failed; put_robots
\* returns True exactly when no insert of the list failed; and the hubs after
\* a put_robots that returned False are still enumerated and loaded.
C14_PartialSuccess ==
    /\ \A i \in 1..Len(enumerated) :
          LET list == ListOf(i) IN
          /\ \A k \in 1..Len(list) :
                ~ PutBefore(list[k], i) => enumerated[i].hub \in RowHubs(list[k])
          /\ enumerated[i].put = (\A k \in 1..Len(list) : ~ PutBefore(list[k], i))
    /\ BuildDone =>
          Len(enumerated) =
              Cardinality({ k \in 1..Len(hubs) : NotExcluded(hubs[k], excluded) })

\* the insert of srv3 under HUB-B failed, srv1 after it in the same list was
\* stored, and the next hub was loaded
C14_Witness ==
    /\ BuildDone
    /\ \E i \in 1..(Len(enumerated) - 1) :
          /\ enumerated[i].hub = HUB_B
          /\ ~ enumerated[i].put
          /\ HUB_B \notin RowHubs(srv3)
          /\ HUB_B \in RowHubs(srv1)
          /\ enumerated[i + 1].put
          /\ enumerated[i + 1].hub \in RowHubs(srv2)

\* the hubs whose get_robots call failed
FailedHubs ==
    { enumerated[i].hub : i \in { j \in 1..Len(enumerated) : ~ enumerated[j].ok } }

\* C15: a hub whose get_robots call fails is asked once only and has no row
\* in the store; the run is not ended by the failure: the hub loop goes on,
\* every other hub that is not one of the excluded names is enumerated as
\* well, and the dispatch loop is entered; a target that is a robot of failed
\* hubs only is looked up, not found, written to the unresolved report and
\* not pushed.
C15_FailedHubSkipped ==
    /\ pc # "aborted"
    /\ pc = "hubs" => ENABLED (LoadHub \/ SkipHub \/ OpenFiles)
    /\ \A i, j \in 1..Len(enumerated) :
          enumerated[i].hub = enumerated[j].hub => i = j
    /\ \A i \in 1..Len(db.rows) : db.rows[i].hub \notin FailedHubs
    /\ (BuildDone /\ FailedHubs # {}) =>
          \A k \in 1..Len(hubs) :
              hubs[k] \notin ExcludedNames =>
                  \E i \in 1..Len(enumerated) : enumerated[i].hub = hubs[k]
    /\ \A t \in 1..Len(lookups) :
          (OwnersOf(NameOf(t)) # {} /\ OwnersOf(NameOf(t)) \subseteq FailedHubs) =>
              /\ ~ Resolved(t)
              /\ NumCalls(t) = 0
              /\ \E k \in 1..Len(f_norobot) : f_norobot[k] = NameOf(t)

\* C16: when get_hubs fails (no hub list is returned) the run ends there: no
\* target is read, no deployment call is made and nothing is written to
\* either report.
C16_HubFailureIsFatal ==
    (pc \notin {"create_db", "get_hubs"} /\ hubs = <<>>) =>
        /\ targets = <<>>
        /\ lookups = <<>>
        /\ calls = <<>>
        /\ f_norobot = <<>>
        /\ f_pushed = <<>>

\* C17: on a store file that cannot be opened or cannot be written the run
\* ends at create_db: no target is looked up and no deployment call is made.
C17_ResetFailureAborts ==
    /\ pc \in {"create_db", "aborted"}
    /\ enumerated = <<>>
    /\ lookups = <<>>
    /\ calls = <<>>

\* C18: the dispatch loop is never left because of a target: after a target
\* that was not found, or whose every deployment call failed, the loop is
\* back at its head, where the next line is read or the list ends; every
\* line read has one lookup, and every target handled has exactly one of the
\* outcomes unresolved, pushed, failed.
C18_BatchGoesOn ==
    /\ pc # "aborted"
    /\ (pc = "targets" /\ Len(targets) < MaxTargets) => ENABLED ReadTarget
    /\ pc = "push" => ENABLED FirstPush
    /\ pc = "retry" => ENABLED (Retry \/ Record)
    /\ Len(lookups) = Len(targets)
    /\ \A t \in 1..Len(targets) :
          IF Finished(t)
          THEN Cardinality({ S \in {UnresolvedTargets, PushedTargets,
                                     ExhaustedTargets} : t \in S }) = 1
          ELSE t = Len(targets) /\ pc \in {"push", "retry"}
    /\ Len(f_norobot) + Len(f_pushed) + Cardinality(ExhaustedTargets)
          = Cardinality(FinishedTargets)

\* an unresolved target and one whose calls all failed were followed by a
\* target that was pushed to
C18_Witness ==
    /\ pc = "done"
    /\ 1 \in UnresolvedTargets
    /\ 2 \in ExhaustedTargets
    /\ 3 \in PushedTargets

\* the targets handled so far whose name is this one
Occurrences(name) == { t \in FinishedTargets : NameOf(t) = name }

\* C19: every occurrence of a hostname in the target list is looked up on
\* its own; an occurrence that is resolved is called at least once and, when
\* every call fails, exactly Max(retries, 0) + 1 times, whatever happened to
\* the occurrences before it; and while no deployment call has failed, a
\* resolved hostname handled k times has k lines in the pushed report, the
\* count being the number of all such occurrences.
C19_DuplicatesIndependent ==
    /\ \A t \in 1..Len(targets) :
          /\ lookups[t].t = t
          /\ lookups[t].hostname = NameOf(t)
    /\ \A t \in FinishedTargets :
          Resolved(t) =>
              /\ NumCalls(t) >= 1
              /\ AllFailed(t) => NumCalls(t) = Max(retries, 0) + 1
    /\ (\A i \in 1..Len(calls) : calls[i].ok) =>
          /\ \A line \in TargetLines :
                LET name == NameOfLine[line] IN
                /\ Count(f_pushed, name)
                      = Cardinality({ t \in Occurrences(name) : Resolved(t) })
                /\ Count(f_norobot, name)
                      = Cardinality({ t \in Occurrences(name) : ~ Resolved(t) })
          /\ times_pushed = Cardinality({ t \in FinishedTargets : Resolved(t) })

\* the same line three times with one retry configured: the first
\* occurrence failed both calls, the second was pushed to at its second call
\* and the third at its first
C19_Witness ==
    /\ pc = "done"
    /\ retries = 1
    /\ Len(targets) = 3
    /\ targets[1] = targets[2]
    /\ targets[2] = targets[3]
    /\ 1 \in ExhaustedTargets /\ NumCalls(1) = 2
    /\ 2 \in PushedTargets /\ NumCalls(2) = 2
    /\ 3 \in PushedTargets /\ NumCalls(3) = 1
    /\ Count(f_pushed, NameOf(1)) = 2
    /\ times_pushed = 2

\* the calls of one operation made for the k-th alarm
InvokedFor(op, k) ==
    { i \in 1..Len(invoked) : invoked[i].op = op /\ invoked[i].alarm = k }

\* is_reachable answered True for the k-th alarm
Reachable(k) ==
    \E i \in InvokedFor("is_reachable", k) : invoked[i].result = "True"

\* C20: for every alarm the loop has taken, remove_robot and
\* acknowledge_alarm are invoked for it if and only if is_reachable answered
\* False for its source, and the loop takes every alarm of the list.
C20_ClosesOnlyOffline ==
    /\ \A k \in 1..alarm :
          /\ InvokedFor("is_reachable", k) # {}
          /\ (InvokedFor("remove_robot", k) # {}
                 /\ InvokedFor("acknowledge_alarm", k) # {})
             <=> ~ Reachable(k)
          /\ Reachable(k) =>
                /\ InvokedFor("remove_robot", k) = {}
                /\ InvokedFor("acknowledge_alarm", k) = {}
    /\ pc \in {"done", "aborted"} => alarm = Len(alarms)

\* the names on the non-empty lines of a file, in file order
NamesOfFile(f) ==
    LET ne == SelectSeq(f, LAMBDA l : Strip(l) # <<>>)
    IN  [k \in 1..Len(ne) |-> Strip(ne[k])]

\* the ids of the get_comp_sys_ids calls made from the k-th on, in call order
RECURSIVE IdsFrom(_)
IdsFrom(k) == IF k > Len(asked) THEN <<>> ELSE asked[k].ids \o IdsFrom(k + 1)

\* C21: when get_systems_list returns, get_comp_sys_ids has been called once
\* for the name on every non-empty line of the file, in file order, wherever
\* the empty lines are, and the result holds the ids of these calls in order.
C21_EverySystemListed ==
    pc = "returned" =>
        /\ [k \in 1..Len(asked) |-> asked[k].name] = NamesOfFile(systems)
        /\ cs_ids = IdsFrom(1)

\* C22: one has_robot call is made for each target read and none while its
\* deployment calls are made: during the calls found is still the row that
\* call returned, and every call for the target, first or retried, is made
\* with the hub and robot of that row.
C22_OneLookupPerTarget ==
    /\ Len(lookups) = Len(targets)
    /\ \A t \in 1..Len(lookups) : lookups[t].t = t
    /\ pc \in {"push", "retry"} => found = lookups[Len(targets)].row
    /\ \A i \in 1..Len(calls) :
          /\ calls[i].t \in 1..Len(lookups)
          /\ <<calls[i].hub, calls[i].robot>> = lookups[calls[i].t].row

\* the store holds Srv1 under HUB-A and srv1 under HUB-B; a target resolved
\* to one of them was called twice, both times with that row
C22_Witness ==
    /\ pc = "done"
    /\ Cardinality(has_robot(db, srv1)) = 2
    /\ \E t \in 1..Len(lookups) :
          /\ Resolved(t)
          /\ NumCalls(t) = 2
          /\ \A i \in 1..Len(calls) :
                calls[i].t = t => calls[i].robot = lookups[t].row[2]

\* the store that create_db and the put_robots calls made from the k-th on
\* produce from the store d
RECURSIVE StoreBuilt(_, _)
StoreBuilt(d, k) ==
    IF k > Len(enumerated) THEN d
    ELSE StoreBuilt(put_robots(d, enumerated[k].hub, ListOf(k)), k + 1)

Dispatching ==
    targets # <<>> \/ lookups # <<>> \/ calls # <<>> \/ f_norobot # <<>>
        \/ f_pushed # <<>>

\* C23: while the store is reset and the hubs are enumerated and loaded no
\* target has been read, looked up, called or reported; and from the first
\* target on the hub loop has run to its end, every hub that passes the test
\* has been enumerated exactly once, and the store is the one that create_db
\* and these put_robots calls produced: nothing is enumerated or written
\* after the dispatch has started.
C23_BuildBeforeDispatch ==
    /\ pc \in {"create_db", "get_hubs", "hubs"} => ~ Dispatching
    /\ h = Len(enumerated)
          + Cardinality({ k \in 1..h : ~ NotExcluded(hubs[k], excluded) })
    /\ (Dispatching \/ BuildDone) =>
          /\ BuildDone
          /\ h = Len(hubs)
          /\ db = StoreBuilt(create_db(db), 1)

\* two hubs were enumerated and loaded, then targets were looked up and
\* called
C23_Witness ==
    /\ pc = "done"
    /\ Len(enumerated) = 2
    /\ Len(db.rows) >= 2
    /\ Len(lookups) >= 2
    /\ calls # <<>>

\* C24: no step taken once the hub loop has ended (reading a target and
\* looking it up, a deployment call, a retry, a report write, the end of the
\* run) changes the store: its table and its rows stay as the build left
\* them, also in the state in which the run ends.
C24_DispatchReadsOnly ==
    [][BuildDone => (db' = db /\ enumerated' = enumerated)]_vars

\* the run ended after a lookup, a retried call and a report write, and the
\* store still holds the rows of the build
C24_Witness ==
    /\ pc = "done"
    /\ db.exists
    /\ db.rows # <<>>
    /\ db = StoreBuilt(create_db(db), 1)
    /\ f_pushed # <<>>
    /\ f_norobot # <<>>
    /\ \E i \in 1..Len(calls) : calls[i].delayed

\* the sleeps taken while the t-th target was handled
SleepsOf(t) == { k \in 1..Len(sleeps) : sleeps[k].t = t }

\* C25: every sleep(delay) lies between two consecutive push_pkg calls for
\* the same target, and between any two such calls there is exactly one: a
\* target that received n calls incurred n - 1 delays, none before its first
\* call and none after its last, and an unresolved target incurred none.
C25_DelayBetweenAttempts ==
    /\ \A k \in 1..Len(sleeps) :
          LET n == sleeps[k].after IN
          /\ n >= 1 /\ n < Len(calls)
          /\ calls[n].t = sleeps[k].t
          /\ calls[n + 1].t = sleeps[k].t
          /\ \A j \in 1..Len(sleeps) : sleeps[j].after = n => j = k
    /\ \A i \in 1..Len(calls) :
          calls[i].delayed <=> (i > 1 /\ calls[i - 1].t = calls[i].t)
    /\ \A t \in 1..Len(targets) :
          Cardinality(SleepsOf(t)) = Max(NumCalls(t) - 1, 0)

\* a target failed its first call and its retry (one delay), the next one
\* was pushed to at its first call (no delay)
C25_Witness ==
    /\ pc = "done"
    /\ 1 \in ExhaustedTargets /\ NumCalls(1) = 2 /\ Cardinality(SleepsOf(1)) = 1
    /\ 2 \in PushedTargets /\ NumCalls(2) = 1 /\ SleepsOf(2) = {}

\* C26: after any sequence of create_db and put_robots calls the store holds
\* at most one row, hence at most one hub, for a robot hostname, hostnames
\* that differ only in case being the same hostname (as has_robot takes them).
C26_OneEntryPerHostname ==
    \A i, j \in 1..Len(db.rows) :
        LowerName[db.rows[i].robot] = LowerName[db.rows[j].robot] => i = j

\* C27: every deployment call for a target is made with the hub and the
\* robot of a row of the store, the row that the lookup of the target
\* returned: the robot in the spelling in which the hub listed it when it was
\* loaded, which equals the looked-up text only up to case.
C27_CallUsesStoredRow ==
    \A i \in 1..Len(calls) :
        LET t == calls[i].t IN
        /\ <<calls[i].hub, calls[i].robot>> = lookups[t].row
        /\ calls[i].hub \in RowHubs(calls[i].robot)
        /\ LowerName[calls[i].robot] = NameOf(t)
        /\ \E k \in Listings(calls[i].robot) : enumerated[k].hub = calls[i].hub

\* the target srv3 was resolved to the robot SRV3 of HUB-B and both the
\* first call and the retry were made with SRV3
C27_Witness ==
    /\ Len(calls) >= 2
    /\ calls[1].t = calls[2].t
    /\ NameOf(calls[1].t) = srv3
    /\ calls[1].robot = SRV3 /\ calls[1].hub = HUB_B
    /\ calls[2].robot = SRV3 /\ calls[2].hub = HUB_B

\* C28: whatever the hub list, the target list, the retry count and the
\* results of the calls, a run in which every call returns reaches the end of
\* main(), all targets read having been handled.
C28_Terminates == <>(pc = "done" /\ FinishedTargets = 1..Len(targets))

\* the run ended after the largest target list, with retries configured and
\* a target whose calls all failed
C28_Witness ==
    /\ pc = "done"
    /\ retries = MaxRetries
    /\ Len(targets) = MaxTargets
    /\ Len(enumerated) >= 2
    /\ ExhaustedTargets # {}
    /\ PushedTargets # {}

\* the deployment calls made for the t-th target that came after a sleep
DelayedCalls(t) ==
    { i \in 1..Len(calls) : calls[i].t = t /\ calls[i].delayed }

\* C29: a resolved target is called at least once and at most
\* Max(retries, 0) + 1 times; when retries is zero or negative it is called
\* exactly once, whether the call succeeds or fails, and no sleep is taken.
C29_NoRetryWhenNotPositive ==
    /\ \A t \in 1..Len(lookups) :
          /\ NumCalls(t) <= Max(retries, 0) + 1
          /\ (Resolved(t) /\ (Finished(t) \/ pc = "retry")) => NumCalls(t) >= 1
          /\ (Resolved(t) /\ retries <= 0 /\ (Finished(t) \/ pc = "retry"))
                => NumCalls(t) = 1 /\ DelayedCalls(t) = {}
    /\ retries <= 0 => sleeps = <<>>

\* with retries = -1 a resolved target failed its only call and the next
\* target was read
C29_Witness ==
    /\ retries = -1
    /\ 1 \in ExhaustedTargets
    /\ NumCalls(1) = 1
    /\ Len(targets) >= 2
    /\ sleeps = <<>>

\* the lines of both reports
ReportLines ==
    { f_norobot[k] : k \in 1..Len(f_norobot) } \cup { f_pushed[k] : k \in 1..Len(f_pushed) }

\* C30: the string passed to the lookup is the target trimmed and in lower
\* case, and every line of either report is that string of its target (the
\* unresolved ones in norobot, the pushed ones in pushed): it has no
\* surrounding whitespace and no upper-case letter, so it is neither the line
\* as read nor the robot name as stored when these are spelled differently.
C30_ReportsNormalisedName ==
    /\ \A t \in 1..Len(lookups) :
          lookups[t].hostname = Lower(Strip(targets[t]))
    /\ f_norobot = NamesIn(UnresolvedTargets)
    /\ f_pushed = NamesIn(PushedTargets)
    /\ \A line \in ReportLines :
          /\ Strip(line) = line
          /\ Lower(line) = line
          /\ \A t \in 1..Len(targets) : line # targets[t]
    /\ \A t \in PushedTargets :
          lookups[t].row[2] # NameOf(t) =>
             \A k \in 1..Len(f_pushed) : f_pushed[k] # lookups[t].row[2]

\* the target read as tab-SRV3-newline was resolved to the stored robot SRV3
\* and pushed, its line in the pushed report is srv3, and another target went
\* to the norobot report
C30_Witness ==
    /\ \E t \in PushedTargets :
          /\ targets[t] = <<"\t">> \o SRV3 \o <<"\n">>
          /\ lookups[t].row[2] = SRV3
          /\ lookups[t].hostname = srv3
          /\ f_pushed = <<srv3>>
    /\ f_norobot # <<>>

=============================================================================
